---- MODULE Spec2Model ----
(***************************************************************************)
(* TinyMediaReceiver (src/src/client/TinyMediaReceiver.mjs): one receiver  *)
(* feeding chunks into a MediaSource SourceBuffer, with its periodic       *)
(* buffer janitor and its teardown.                                        *)
(*                                                                         *)
(* Time is counted in units of 0.05 s, so that the fixed 0.1 s look-back   *)
(* of the janitor, tolerances below and above it, and whole seconds are    *)
(* all integers.  The host is the browser event loop: every action below   *)
(* is one callback run to completion.  The completion of an append/remove  *)
(* and the delivery of its updateend event are one step, and so are the    *)
(* opening of the MediaSource and the delivery of sourceopen.              *)
(***************************************************************************)
EXTENDS Integers, Sequences, FiniteSets, TLC

\* ---------------------------------------------------------------- bounds
MaxPushes == 4          \* push() calls explored
MaxDestroyCalls == 2    \* destroy() calls explored
MaxSysCalls == 3        \* getSysEvents() calls explored
ScenarioChunks == 5     \* chunks pushed in the five-chunk scenario
MaxPushesEach == 2      \* push() calls explored on each of several receivers
MaxReceivers == 2       \* receivers that exist side by side or one after another

\* ------------------------------------------------------------ constants
IdealBack == 2                  \* 0.1 s, the fixed look-back of idealTime
Second == 10 * IdealBack        \* one second in time units
ChunkDuration == Second         \* every chunk carries one second of media
DefaultCleanupTime == 100       \* ms
DefaultBufferTolerance == 2    \* constructor default bufferTolerance = 0.1 s
DefaultMaxBufferBack == 10 * Second   \* constructor default maxBufferBack = 10

\* Values offered to the constructor.  A value is [num |-> is it a JS
\* number, v |-> its magnitude in time units (ms for cleanupTime)].
Num(v) == [num |-> TRUE, v |-> v]
NotANumber == [num |-> FALSE, v |-> 0]

\* The number NaN (typeof NaN === 'number'), held as a value no quantity of
\* the model takes.  Every comparison with it is false and every sum with it
\* is NaN.
NaN == -1000
Lt(a, b) == a # NaN /\ b # NaN /\ a < b
Gt(a, b) == a # NaN /\ b # NaN /\ a > b
LtEq(a, b) == a # NaN /\ b # NaN /\ a <= b
Plus(a, b) == IF a = NaN \/ b = NaN THEN NaN ELSE a + b
Minus(a, b) == IF a = NaN \/ b = NaN THEN NaN ELSE a - b

MaxBackInputs ==
    {Num(Second), Num(2 * Second), Num(0), Num(Second + 10), Num(NaN), NotANumber}
ToleranceInputs ==
    {Num(1), Num(IdealBack), Num(Second + 10), Num(0), Num(NaN), NotANumber}
CleanupTimeInputs == {Num(DefaultCleanupTime), Num(0), Num(NaN), NotANumber}
ElementInputs == {"audio", "video", "div", "HTMLMediaElement", "object"}

\* Number.isInteger(x) && x > 0, for a quantity held in seconds
IsPositiveInteger(x) == (x.num /\ x.v # NaN /\ x.v % Second = 0) /\ ~LtEq(x.v, 0)
\* !(typeof x !== 'number' || x <= 0)
IsPositiveNumber(x) == x.num /\ ~LtEq(x.v, 0)

NoOp == [kind |-> "none", chunk |-> 0, from |-> 0, to |-> 0, maxBack |-> 0]

VARIABLES
    ctor,            \* "new" | "ok" | "threw": outcome of the constructor
    args,            \* the options of the constructor call being observed
    mimeType,        \* TRUE once this.mimeType is set
    readyState,      \* mediaSource.readyState: "closed" | "open" | "ended"
    sourceBuffer,    \* TRUE when this.sourceBuffer is a SourceBuffer
    updating,        \* sourceBuffer.updating
    op,              \* the append/remove the SourceBuffer is carrying out
    bufStart,        \* buffered.start(0)
    bufEnd,          \* buffered.end(buffered.length - 1)
    queue,           \* this.queue
    isEnded,         \* this.isEnded
    maxBufferBack,   \* this.maxBufferBack, in time units
    tolerance,       \* this.tolerance, in time units
    element,         \* TRUE while #element is a media element
    srcSet,          \* TRUE once #element.src has been assigned
    currentTime,     \* #element.currentTime
    timer,           \* TRUE while the #cleanupBuffer interval is running
    tryEndScheduled, \* TRUE while a setTimeout(tryEnd, 100) is pending
    eos,             \* number of mediaSource.endOfStream() calls
    \* observation of the run
    pushCalls,       \* push() calls made so far; the id of the next chunk
    destroyCalls,    \* destroy() calls made from outside
    accepted,        \* chunks put into the queue by pushChunk, in order
    appendCalls,     \* chunks handed to sourceBuffer.appendBuffer, in order
    failedAt,        \* positions in appendCalls whose call threw
    busyCalls,       \* appendBuffer/remove calls made while updating
    errors,          \* payloads of the Error events emitted
    destroyedCount,  \* Destroyed events emitted
    emitted,         \* events emitted by the last callback
    escaped,         \* exception that left the last callback, or "none"
    last,            \* the last callback that ran
    \* the internal event channel
    sysEventsUsed,   \* this.#sysEventsUsed
    sysEmitted,      \* events the last callback emitted on #sysEvents
    sysCalls,        \* getSysEvents() calls made so far
    sysGrants,       \* getSysEvents() calls that returned the emitter
    \* listeners, and what the last callback did in the order it did it
    listeners,       \* TRUE while #events has a listener (for every event)
    sysListeners,    \* TRUE while #sysEvents has a listener (for every event)
    received,        \* events the listeners of #events got in the last callback
    sysReceived,     \* events the listeners of #sysEvents got in it
    trace,           \* the calls and emits of the last callback, in order
    polls,           \* setTimeout(tryEnd, 100) timeouts pending
    \* several receivers, and the manager that keeps receivers by key
    instances,       \* the receivers that exist, in order of construction
    actor,           \* the receiver whose callback ran last, 0 for none
    streams,         \* manager #streams: media id -> receiver (its index)
    owner,           \* for each receiver, the key initReceiver built it for
    mlast            \* the last manager call: arguments and outcome

receiverVars == <<ctor, args, mimeType, readyState, sourceBuffer, updating, op, bufStart, bufEnd,
            queue, isEnded, maxBufferBack, tolerance, element, srcSet, currentTime,
            timer, tryEndScheduled, eos, pushCalls, destroyCalls, accepted,
            appendCalls, failedAt, busyCalls, errors, destroyedCount, emitted,
              escaped, last, sysEventsUsed, sysEmitted, sysCalls, sysGrants,
              listeners, sysListeners, received, sysReceived, trace, polls>>

vars == <<receiverVars, instances, actor, streams, owner, mlast>>

\* The receiver as one record, so that a callback and the methods it calls
\* compose as functions on it.
State ==
    [ctor |-> ctor, args |-> args, mimeType |-> mimeType, readyState |-> readyState,
     sourceBuffer |-> sourceBuffer, updating |-> updating, op |-> op,
     bufStart |-> bufStart, bufEnd |-> bufEnd, queue |-> queue,
     isEnded |-> isEnded, maxBufferBack |-> maxBufferBack,
     tolerance |-> tolerance, element |-> element, srcSet |-> srcSet,
     currentTime |-> currentTime, timer |-> timer,
     tryEndScheduled |-> tryEndScheduled, eos |-> eos,
     pushCalls |-> pushCalls, destroyCalls |-> destroyCalls,
     accepted |-> accepted, appendCalls |-> appendCalls,
     failedAt |-> failedAt, busyCalls |-> busyCalls, errors |-> errors,
     destroyedCount |-> destroyedCount, emitted |-> emitted,
     escaped |-> escaped, last |-> last, sysEventsUsed |-> sysEventsUsed,
     sysEmitted |-> sysEmitted, sysCalls |-> sysCalls, sysGrants |-> sysGrants,
     listeners |-> listeners, sysListeners |-> sysListeners,
     received |-> received, sysReceived |-> sysReceived, trace |-> trace,
     polls |-> polls]

\* No manager call has been made.
NoCall == [call |-> "none", key |-> <<>>, threw |-> FALSE, result |-> 0, events |-> <<>>]

\* The next state of the one receiver is s; no other receiver and no manager
\* is touched.
Commit(s) ==
    /\ sysEventsUsed' = s.sysEventsUsed /\ sysEmitted' = s.sysEmitted
    /\ sysCalls' = s.sysCalls /\ sysGrants' = s.sysGrants
    /\ listeners' = s.listeners /\ sysListeners' = s.sysListeners
    /\ received' = s.received /\ sysReceived' = s.sysReceived
    /\ trace' = s.trace /\ polls' = s.polls
    /\ UNCHANGED <<instances, actor, streams, owner, mlast>>
    /\ ctor' = s.ctor /\ args' = s.args /\ mimeType' = s.mimeType /\ readyState' = s.readyState
    /\ sourceBuffer' = s.sourceBuffer /\ updating' = s.updating /\ op' = s.op
    /\ bufStart' = s.bufStart /\ bufEnd' = s.bufEnd /\ queue' = s.queue
    /\ isEnded' = s.isEnded /\ maxBufferBack' = s.maxBufferBack
    /\ tolerance' = s.tolerance /\ element' = s.element /\ srcSet' = s.srcSet
    /\ currentTime' = s.currentTime /\ timer' = s.timer
    /\ tryEndScheduled' = s.tryEndScheduled /\ eos' = s.eos
    /\ pushCalls' = s.pushCalls /\ destroyCalls' = s.destroyCalls
    /\ accepted' = s.accepted /\ appendCalls' = s.appendCalls
    /\ failedAt' = s.failedAt /\ busyCalls' = s.busyCalls /\ errors' = s.errors
    /\ destroyedCount' = s.destroyedCount /\ emitted' = s.emitted
    /\ escaped' = s.escaped /\ last' = s.last

\* The receiver held in the variables is in state s.
ReceiverIs(s) ==
    /\ sysEventsUsed = s.sysEventsUsed /\ sysEmitted = s.sysEmitted
    /\ sysCalls = s.sysCalls /\ sysGrants = s.sysGrants
    /\ listeners = s.listeners /\ sysListeners = s.sysListeners
    /\ received = s.received /\ sysReceived = s.sysReceived
    /\ trace = s.trace /\ polls = s.polls
    /\ ctor = s.ctor /\ args = s.args /\ mimeType = s.mimeType /\ readyState = s.readyState
    /\ sourceBuffer = s.sourceBuffer /\ updating = s.updating /\ op = s.op
    /\ bufStart = s.bufStart /\ bufEnd = s.bufEnd /\ queue = s.queue
    /\ isEnded = s.isEnded /\ maxBufferBack = s.maxBufferBack
    /\ tolerance = s.tolerance /\ element = s.element /\ srcSet = s.srcSet
    /\ currentTime = s.currentTime /\ timer = s.timer
    /\ tryEndScheduled = s.tryEndScheduled /\ eos = s.eos
    /\ pushCalls = s.pushCalls /\ destroyCalls = s.destroyCalls
    /\ accepted = s.accepted /\ appendCalls = s.appendCalls
    /\ failedAt = s.failedAt /\ busyCalls = s.busyCalls /\ errors = s.errors
    /\ destroyedCount = s.destroyedCount /\ emitted = s.emitted
    /\ escaped = s.escaped /\ last = s.last

\* The one receiver is in state s, on its own: no further receivers, no
\* manager entries.
StartAt(s) ==
    /\ ReceiverIs(s)
    /\ instances = <<>> /\ actor = 0 /\ streams = <<>> /\ owner = <<>>
    /\ mlast = NoCall

NoArgs == <<>>

\* A callback starts with nothing emitted and nothing thrown.
Enter(s, name) ==
    [s EXCEPT !.emitted = <<>>, !.sysEmitted = <<>>, !.escaped = "none",
              !.last = name, !.args = NoArgs,
              !.received = <<>>, !.sysReceived = <<>>, !.trace = <<>>]

\* The object before its constructor has run.
Blank ==
    [ctor |-> "new", args |-> NoArgs, mimeType |-> FALSE, readyState |-> "closed",
     sourceBuffer |-> FALSE, updating |-> FALSE, op |-> NoOp,
     bufStart |-> 0, bufEnd |-> 0, queue |-> <<>>, isEnded |-> FALSE,
     maxBufferBack |-> 0, tolerance |-> 0, element |-> FALSE, srcSet |-> FALSE,
     currentTime |-> 0, timer |-> FALSE, tryEndScheduled |-> FALSE, eos |-> 0,
     pushCalls |-> 0, destroyCalls |-> 0, accepted |-> <<>>,
     appendCalls |-> <<>>, failedAt |-> {}, busyCalls |-> 0, errors |-> <<>>,
     destroyedCount |-> 0, emitted |-> <<>>, escaped |-> "none", last |-> "none",
     sysEventsUsed |-> FALSE, sysEmitted |-> <<>>, sysCalls |-> 0, sysGrants |-> 0,
     listeners |-> FALSE, sysListeners |-> FALSE, received |-> <<>>,
     sysReceived |-> <<>>, trace |-> <<>>, polls |-> 0]

\* #emit(event, ...args) forwarding to #sysEvents whether or not
\* getSysEvents() has been called.
EmitAlwaysForwards(s, event, arg) ==
    CHOOSE after \in
        {[r EXCEPT !.emitted = Append(@, <<event, arg>>),
                   !.received = IF r.listeners THEN Append(@, <<event, arg>>) ELSE @,
                   !.sysEmitted = Append(@, <<event, arg>>),
                   !.sysReceived = IF r.sysListeners THEN Append(@, <<event, arg>>) ELSE @,
                   !.trace = Append(@, <<"emit", event, arg>>),
                   !.errors = IF event = "Error" THEN Append(@, arg) ELSE @,
                   !.destroyedCount = IF event = "Destroyed" THEN @ + 1 ELSE @]
            : r \in {s}} : TRUE

\* #emit(event, ...args): the event reaches the listeners of the receiver,
\* and those of #sysEvents once getSysEvents() has handed it out.  (s is
\* worked out once and called r.)
Emit(s, event, arg) ==
    CHOOSE after \in
        {[r EXCEPT !.emitted = Append(@, <<event, arg>>),
                   !.received = IF r.listeners THEN Append(@, <<event, arg>>) ELSE @,
                   !.sysEmitted = IF r.sysEventsUsed THEN Append(@, <<event, arg>>) ELSE @,
                   !.sysReceived = IF r.sysEventsUsed /\ r.sysListeners
                                   THEN Append(@, <<event, arg>>) ELSE @,
                   !.trace = Append(@, <<"emit", event, arg>>),
                   !.errors = IF event = "Error" THEN Append(@, arg) ELSE @,
                   !.destroyedCount = IF event = "Destroyed" THEN @ + 1 ELSE @]
            : r \in {s}} : TRUE

\* ------------------------------------------------------- the SourceBuffer
\* sourceBuffer.appendBuffer(chunk).  The call throws InvalidStateError when
\* the buffer is updating, and throws when the platform rejects the chunk
\* (ok = FALSE); otherwise the append is under way until its updateend.
\* Result: [st |-> the receiver after the call, threw |-> did it throw].
AppendBuffer(s, chunk, ok) ==
    LET called == [s EXCEPT !.appendCalls = Append(@, chunk),
                            !.trace = Append(@, <<"call", "appendBuffer", chunk>>)]
        thrown == [called EXCEPT !.trace = Append(@, <<"throw", "appendBuffer", chunk>>)]
        pos == Len(called.appendCalls)
    IN  IF s.updating
        THEN [st |-> [thrown EXCEPT !.busyCalls = @ + 1, !.failedAt = @ \cup {pos}],
              threw |-> TRUE]
        ELSE IF ~ok
        THEN [st |-> [thrown EXCEPT !.failedAt = @ \cup {pos}], threw |-> TRUE]
        ELSE [st |-> [called EXCEPT !.updating = TRUE,
                                    !.op = [kind |-> "append", chunk |-> chunk,
                                            from |-> 0, to |-> 0, maxBack |-> 0]],
              threw |-> FALSE]

\* sourceBuffer.remove(from, to), with the same two ways of throwing.
RemoveRange(s, from, to, ok) ==
    LET called == [s EXCEPT !.trace = Append(@, <<"call", "remove", <<from, to>>>>)]
        thrown == [called EXCEPT !.trace = Append(@, <<"throw", "remove", <<from, to>>>>)]
    IN
    IF s.updating
    THEN [st |-> [thrown EXCEPT !.busyCalls = @ + 1], threw |-> TRUE]
    ELSE IF ~ok
    THEN [st |-> thrown, threw |-> TRUE]
    ELSE [st |-> [called EXCEPT !.updating = TRUE,
                           !.op = [kind |-> "remove", chunk |-> 0, from |-> from,
                                   to |-> to, maxBack |-> s.maxBufferBack]],
          threw |-> FALSE]

\* What the outstanding operation has done to the buffered range when it
\* completes: in 'sequence' mode an append extends the range at its end, a
\* remove of [from, to) cuts it at its start.
ApplyOp(s) ==
    LET done == [s EXCEPT !.updating = FALSE, !.op = NoOp]
    IN  IF s.op.kind = "append"
        THEN [done EXCEPT !.bufEnd = @ + ChunkDuration]
        ELSE IF s.op.kind = "remove"
        THEN [done EXCEPT !.bufStart =
                  IF s.op.from <= @ /\ @ < s.op.to
                  THEN (IF s.op.to < s.bufEnd THEN s.op.to ELSE s.bufEnd)
                  ELSE @]
        ELSE done

\* A call of a platform function, put on record.
Call(s, fn, arg) == [s EXCEPT !.trace = Append(@, <<"call", fn, arg>>)]

\* The teardown of tryEnd removing the listeners before it emits Destroyed.
TeardownSilentFirst(s) ==
    LET ended == Call([s EXCEPT !.readyState = "ended", !.eos = @ + 1], "endOfStream", 0)
        revoked == Call(ended, "revokeObjectURL", 0)
        released == IF revoked.element
                    THEN Call([revoked EXCEPT !.element = FALSE], "element.remove", 0)
                    ELSE revoked
        cleared == Call([released EXCEPT !.timer = FALSE], "clearInterval", 0)
        silent == Call([cleared EXCEPT !.listeners = FALSE], "events.removeAllListeners", 0)
    IN  Emit(Call([silent EXCEPT !.sysListeners = FALSE], "sysEvents.removeAllListeners", 0),
             "Destroyed", 0)

\* The teardown of tryEnd (lines 531-540): end of stream, the object URL
\* revoked, the element removed and forgotten, the interval cleared,
\* Destroyed emitted, the listeners of both emitters removed.
Teardown(s) ==
    LET ended == Call([s EXCEPT !.readyState = "ended", !.eos = @ + 1], "endOfStream", 0)
        revoked == Call(ended, "revokeObjectURL", 0)
        released == IF revoked.element
                    THEN Call([revoked EXCEPT !.element = FALSE], "element.remove", 0)
                    ELSE revoked
        cleared == Call([released EXCEPT !.timer = FALSE], "clearInterval", 0)
        told == Emit(cleared, "Destroyed", 0)
        silent == Call([told EXCEPT !.listeners = FALSE], "events.removeAllListeners", 0)
    IN  Call([silent EXCEPT !.sysListeners = FALSE], "sysEvents.removeAllListeners", 0)

\* setTimeout(tryEnd, 100): one more poll is pending.
PollLater(s) ==
    Call([s EXCEPT !.tryEndScheduled = TRUE, !.polls = @ + 1], "setTimeout", 0)

\* tryEnd tearing down without waiting for the buffer to be idle.
TryEndNoIdleWait(s) ==
    IF ~s.sourceBuffer
    THEN [s EXCEPT !.escaped = "No sourcerBuffer"]
    ELSE IF s.readyState = "open"
    THEN Teardown(s)
    ELSE PollLater(s)

\* ------------------------------------------------------------- destroy()
\* tryEnd, the closure of destroy(): tear down when the buffer is idle and
\* the source open, otherwise look again in 100 ms.
TryEnd(s) ==
    IF ~s.sourceBuffer
    THEN [s EXCEPT !.escaped = "No sourcerBuffer"]
    ELSE IF ~s.updating /\ s.readyState = "open"
    THEN Teardown(s)
    ELSE PollLater(s)

\* destroy() starting its poll whether or not the receiver has ended already.
DestroyNoEndedCheck(s) ==
    IF s.readyState = "open"
    THEN TryEnd([s EXCEPT !.isEnded = TRUE])
    ELSE s

Destroy(s) ==
    IF ~s.isEnded /\ s.readyState = "open"
    THEN TryEnd([s EXCEPT !.isEnded = TRUE])
    ELSE s

\* _feedQueue() emitting FeedQueue once appendBuffer has taken the chunk.
FeedQueueEmitsAfterAppend(s, ok) ==
    IF ~s.sourceBuffer \/ Len(s.queue) = 0 \/ s.updating
    THEN s
    ELSE LET chunk == Head(s.queue)
             shifted == Call([s EXCEPT !.queue = Tail(@)], "queue.shift", chunk)
             r == AppendBuffer(shifted, chunk, ok)
         IN  IF r.threw
             THEN Destroy(Emit(r.st, "Error", <<"append", chunk>>))
             ELSE Emit(r.st, "FeedQueue", chunk)

\* ---------------------------------------------------------- _feedQueue()
RECURSIVE FeedQueue(_, _)
FeedQueue(s, ok) ==
    IF ~s.sourceBuffer \/ Len(s.queue) = 0 \/ s.updating
    THEN s
    ELSE LET chunk == Head(s.queue)
             shifted == Call([s EXCEPT !.queue = Tail(@)], "queue.shift", chunk)
             r == AppendBuffer(Emit(shifted, "FeedQueue", chunk), chunk, ok)
         IN  IF r.threw
             THEN Destroy(Emit(r.st, "Error", <<"append", chunk>>))
             ELSE IF Len(r.st.queue) > 0 THEN FeedQueue(r.st, ok) ELSE r.st

\* _onSourceOpen() that does not try the feed step once the buffer exists.
OnSourceOpenNoFeed(s, supported, ok) ==
    IF ~supported
    THEN Destroy(Emit(s, "Error", <<"mime", 0>>))
    ELSE Emit([s EXCEPT !.sourceBuffer = TRUE], "SourceOpen", 0)

\* -------------------------------------------------------- _onSourceOpen()
\* supported: the answer of MediaSource.isTypeSupported(this.mimeType).
OnSourceOpen(s, supported, ok) ==
    IF ~supported
    THEN Destroy(Emit(s, "Error", <<"mime", 0>>))
    ELSE FeedQueue(Emit([s EXCEPT !.sourceBuffer = TRUE], "SourceOpen", 0), ok)

\* _cleanupBuffer() correcting only a cursor that has run past the buffer.
CleanupBufferNoLowerCheck(s, removeOk) ==
    IF ~s.sourceBuffer \/ ~s.element THEN s
    ELSE IF s.updating THEN s
    ELSE IF s.bufStart = s.bufEnd THEN s
    ELSE
      LET bufferedDuration == s.bufEnd - s.bufStart
          removeEnd == s.bufStart + (bufferedDuration - s.maxBufferBack)
          r == RemoveRange(s, s.bufStart, removeEnd, removeOk)
          cleaned ==
              IF Gt(bufferedDuration, Plus(s.maxBufferBack, s.tolerance))
              THEN IF r.threw THEN r.st
                   ELSE Emit(r.st, "BufferCleaned", <<s.bufStart, removeEnd>>)
              ELSE s
          idealTime == s.bufEnd - IdealBack
      IN  IF Gt(cleaned.currentTime, Minus(s.bufEnd, s.tolerance))
          THEN Emit([cleaned EXCEPT !.currentTime = idealTime], "SyncTime", idealTime)
          ELSE cleaned

\* _cleanupBuffer() emitting BufferCleaned whether or not its remove threw.
CleanupBufferEmitsOnThrow(s, removeOk) ==
    IF ~s.sourceBuffer \/ ~s.element THEN s
    ELSE IF s.updating THEN s
    ELSE IF s.bufStart = s.bufEnd THEN s
    ELSE
      LET bufferedDuration == s.bufEnd - s.bufStart
          removeEnd == s.bufStart + (bufferedDuration - s.maxBufferBack)
          r == RemoveRange(s, s.bufStart, removeEnd, removeOk)
          cleaned ==
              IF Gt(bufferedDuration, Plus(s.maxBufferBack, s.tolerance))
              THEN Emit(r.st, "BufferCleaned", <<s.bufStart, removeEnd>>)
              ELSE s
          idealTime == s.bufEnd - IdealBack
          minTime == s.bufEnd - s.maxBufferBack
      IN  IF Lt(cleaned.currentTime, Plus(minTime, s.tolerance))
             \/ Gt(cleaned.currentTime, Minus(s.bufEnd, s.tolerance))
          THEN Emit([cleaned EXCEPT !.currentTime = idealTime], "SyncTime", idealTime)
          ELSE cleaned

\* _cleanupBuffer() returning as soon as its remove has thrown.
CleanupBufferStopsOnThrow(s, removeOk) ==
    IF ~s.sourceBuffer \/ ~s.element THEN s
    ELSE IF s.updating THEN s
    ELSE IF s.bufStart = s.bufEnd THEN s
    ELSE
      LET bufferedDuration == s.bufEnd - s.bufStart
          removeEnd == s.bufStart + (bufferedDuration - s.maxBufferBack)
          r == RemoveRange(s, s.bufStart, removeEnd, removeOk)
          over == Gt(bufferedDuration, Plus(s.maxBufferBack, s.tolerance))
          cleaned ==
              IF over THEN Emit(r.st, "BufferCleaned", <<s.bufStart, removeEnd>>) ELSE s
          idealTime == s.bufEnd - IdealBack
          minTime == s.bufEnd - s.maxBufferBack
      IN  IF over /\ r.threw THEN r.st
          ELSE IF Lt(cleaned.currentTime, Plus(minTime, s.tolerance))
             \/ Gt(cleaned.currentTime, Minus(s.bufEnd, s.tolerance))
          THEN Emit([cleaned EXCEPT !.currentTime = idealTime], "SyncTime", idealTime)
          ELSE cleaned

\* _cleanupBuffer() without its return on an empty buffered range.
CleanupBufferNoEmptyCheck(s, removeOk) ==
    IF ~s.sourceBuffer \/ ~s.element THEN s
    ELSE IF s.updating THEN s
    ELSE
      LET bufferedDuration == s.bufEnd - s.bufStart
          removeEnd == s.bufStart + (bufferedDuration - s.maxBufferBack)
          r == RemoveRange(s, s.bufStart, removeEnd, removeOk)
          cleaned ==
              IF Gt(bufferedDuration, Plus(s.maxBufferBack, s.tolerance))
              THEN IF r.threw THEN r.st
                   ELSE Emit(r.st, "BufferCleaned", <<s.bufStart, removeEnd>>)
              ELSE s
          idealTime == s.bufEnd - IdealBack
          minTime == s.bufEnd - s.maxBufferBack
      IN  IF Lt(cleaned.currentTime, Plus(minTime, s.tolerance))
             \/ Gt(cleaned.currentTime, Minus(s.bufEnd, s.tolerance))
          THEN Emit([cleaned EXCEPT !.currentTime = idealTime], "SyncTime", idealTime)
          ELSE cleaned

\* _cleanupBuffer() putting a corrected cursor at bufferEnd itself.
CleanupBufferNoLookBack(s, removeOk) ==
    IF ~s.sourceBuffer \/ ~s.element THEN s
    ELSE IF s.updating THEN s
    ELSE IF s.bufStart = s.bufEnd THEN s
    ELSE
      LET bufferedDuration == s.bufEnd - s.bufStart
          removeEnd == s.bufStart + (bufferedDuration - s.maxBufferBack)
          r == RemoveRange(s, s.bufStart, removeEnd, removeOk)
          cleaned ==
              IF Gt(bufferedDuration, Plus(s.maxBufferBack, s.tolerance))
              THEN IF r.threw THEN r.st
                   ELSE Emit(r.st, "BufferCleaned", <<s.bufStart, removeEnd>>)
              ELSE s
          idealTime == s.bufEnd
          minTime == s.bufEnd - s.maxBufferBack
      IN  IF Lt(cleaned.currentTime, Plus(minTime, s.tolerance))
             \/ Gt(cleaned.currentTime, Minus(s.bufEnd, s.tolerance))
          THEN Emit([cleaned EXCEPT !.currentTime = idealTime], "SyncTime", idealTime)
          ELSE cleaned

\* _cleanupBuffer() without the look at sourceBuffer.updating.
CleanupBufferNoBusyCheck(s, removeOk) ==
    IF ~s.sourceBuffer \/ ~s.element THEN s
    ELSE IF s.bufStart = s.bufEnd THEN s
    ELSE
      LET bufferedDuration == s.bufEnd - s.bufStart
          removeEnd == s.bufStart + (bufferedDuration - s.maxBufferBack)
          r == RemoveRange(s, s.bufStart, removeEnd, removeOk)
      IN  IF Gt(bufferedDuration, Plus(s.maxBufferBack, s.tolerance))
          THEN IF r.threw THEN r.st
               ELSE Emit(r.st, "BufferCleaned", <<s.bufStart, removeEnd>>)
          ELSE s

\* _cleanupBuffer() correcting only a cursor that has fallen behind.
CleanupBufferNoUpperCheck(s, removeOk) ==
    IF ~s.sourceBuffer \/ ~s.element THEN s
    ELSE IF s.updating THEN s
    ELSE IF s.bufStart = s.bufEnd THEN s
    ELSE
      LET bufferedDuration == s.bufEnd - s.bufStart
          removeEnd == s.bufStart + (bufferedDuration - s.maxBufferBack)
          r == RemoveRange(s, s.bufStart, removeEnd, removeOk)
          cleaned ==
              IF Gt(bufferedDuration, Plus(s.maxBufferBack, s.tolerance))
              THEN IF r.threw THEN r.st
                   ELSE Emit(r.st, "BufferCleaned", <<s.bufStart, removeEnd>>)
              ELSE s
          idealTime == s.bufEnd - IdealBack
      IN  IF Lt(cleaned.currentTime, Plus(s.bufEnd - s.maxBufferBack, s.tolerance))
          THEN Emit([cleaned EXCEPT !.currentTime = idealTime], "SyncTime", idealTime)
          ELSE cleaned

\* _cleanupBuffer() keeping the tolerance on top of maxBufferBack when it
\* trims.
CleanupBufferKeepsTolerance(s, removeOk) ==
    IF ~s.sourceBuffer \/ ~s.element THEN s
    ELSE IF s.updating THEN s
    ELSE IF s.bufStart = s.bufEnd THEN s
    ELSE
      LET bufferedDuration == s.bufEnd - s.bufStart
          removeEnd == Plus(s.bufStart, Minus(bufferedDuration - s.maxBufferBack, s.tolerance))
          r == RemoveRange(s, s.bufStart, removeEnd, removeOk)
          cleaned ==
              IF Gt(bufferedDuration, Plus(s.maxBufferBack, s.tolerance))
              THEN IF r.threw THEN r.st
                   ELSE Emit(r.st, "BufferCleaned", <<s.bufStart, removeEnd>>)
              ELSE s
          idealTime == s.bufEnd - IdealBack
          minTime == s.bufEnd - s.maxBufferBack
      IN  IF Lt(cleaned.currentTime, Plus(minTime, s.tolerance))
             \/ Gt(cleaned.currentTime, Minus(s.bufEnd, s.tolerance))
          THEN Emit([cleaned EXCEPT !.currentTime = idealTime], "SyncTime", idealTime)
          ELSE cleaned

\* ------------------------------------------------------- _cleanupBuffer()
CleanupBuffer(s, removeOk) ==
    IF ~s.sourceBuffer \/ ~s.element THEN s
    ELSE IF s.updating THEN s
    ELSE IF s.bufStart = s.bufEnd THEN s
    ELSE
      LET maxBack == s.maxBufferBack
          tol == s.tolerance
          bufferStart == s.bufStart
          bufferEnd == s.bufEnd
          bufferedDuration == bufferEnd - bufferStart
          extra == bufferedDuration - maxBack
          removeEnd == bufferStart + extra
          r == RemoveRange(s, bufferStart, removeEnd, removeOk)
          cleaned ==
              IF Gt(bufferedDuration, Plus(maxBack, tol))
              THEN IF r.threw THEN r.st
                   ELSE Emit(r.st, "BufferCleaned", <<bufferStart, removeEnd>>)
              ELSE s
          idealTime == bufferEnd - IdealBack
          minTime == bufferEnd - maxBack
      IN  IF Lt(cleaned.currentTime, Plus(minTime, tol))
             \/ Gt(cleaned.currentTime, Minus(bufferEnd, tol))
          THEN Emit([cleaned EXCEPT !.currentTime = idealTime], "SyncTime", idealTime)
          ELSE cleaned

\* pushChunk() without its look at isEnded.
PushChunkNoEndedCheck(s, chunk, ok) ==
    FeedQueue([s EXCEPT !.queue = Append(@, chunk),
                        !.accepted = Append(@, chunk)], ok)

\* pushChunk() putting the new chunk at the head of the queue.
PushChunkAtHead(s, chunk, ok) ==
    IF s.isEnded THEN s
    ELSE FeedQueue([s EXCEPT !.queue = <<chunk>> \o @,
                             !.accepted = Append(@, chunk)], ok)

\* ------------------------------------------------------------ pushChunk()
PushChunk(s, chunk, ok) ==
    IF s.isEnded THEN s
    ELSE FeedQueue([s EXCEPT !.queue = Append(@, chunk),
                             !.accepted = Append(@, chunk)], ok)

\* constructor() starting the cleanup interval before it has looked at the
\* element option.
ConstructorTimerEarly(s, supported, maxBack, cleanupTime, bufferTolerance, elem) ==
    LET called == [s EXCEPT !.args = [supported |-> supported, maxBufferBack |-> maxBack,
                                      cleanupTime |-> cleanupTime,
                                      bufferTolerance |-> bufferTolerance,
                                      element |-> elem]]
        threw == [called EXCEPT !.ctor = "threw", !.escaped = "Error"]
    IN  IF ~supported THEN threw
        ELSE IF ~IsPositiveInteger(maxBack) THEN threw
        ELSE IF ~IsPositiveNumber(cleanupTime) THEN threw
        ELSE IF ~IsPositiveNumber(bufferTolerance) THEN threw
        ELSE LET fields == [called EXCEPT !.mimeType = TRUE, !.timer = TRUE,
                                          !.maxBufferBack = maxBack.v,
                                          !.tolerance = bufferTolerance.v]
             IN  IF elem \in {"audio", "video", "HTMLMediaElement"}
                 THEN [fields EXCEPT !.element = TRUE, !.srcSet = TRUE, !.ctor = "ok"]
                 ELSE [fields EXCEPT !.ctor = "threw", !.escaped = "Error"]

\* ---------------------------------------------------------- constructor()
\* Every throw of the constructor leaves the receiver unconstructed; what it
\* has done to the page by then (timer, sink source) stays done.
Constructor(s, supported, maxBack, cleanupTime, bufferTolerance, elem) ==
    LET called == [s EXCEPT !.args = [supported |-> supported, maxBufferBack |-> maxBack,
                                      cleanupTime |-> cleanupTime,
                                      bufferTolerance |-> bufferTolerance,
                                      element |-> elem]]
        threw == [called EXCEPT !.ctor = "threw", !.escaped = "Error"]
    IN  IF ~supported THEN threw
        ELSE IF ~IsPositiveInteger(maxBack) THEN threw
        ELSE IF ~IsPositiveNumber(cleanupTime) THEN threw
        ELSE IF ~IsPositiveNumber(bufferTolerance) THEN threw
        ELSE LET fields == [called EXCEPT !.mimeType = TRUE, !.queue = <<>>,
                                     !.sourceBuffer = FALSE, !.isEnded = FALSE,
                                     !.maxBufferBack = maxBack.v,
                                     !.tolerance = bufferTolerance.v]
             IN  IF elem \in {"audio", "video", "HTMLMediaElement"}
                 THEN [fields EXCEPT !.element = TRUE, !.srcSet = TRUE,
                                     !.timer = TRUE, !.ctor = "ok"]
                 ELSE [fields EXCEPT !.ctor = "threw", !.escaped = "Error"]

\* ------------------------------------------------- setters (lines 467-495)
SetTolerance(s, value) ==
    IF ~IsPositiveNumber(value) THEN [s EXCEPT !.escaped = "Error"]
    ELSE [s EXCEPT !.tolerance = value.v]

SetMaxBufferBack(s, value) ==
    IF ~IsPositiveInteger(value) THEN [s EXCEPT !.escaped = "Error"]
    ELSE [s EXCEPT !.maxBufferBack = value.v]

\* ------------------------------------------------ emit() (lines 160-162)
\* emit(event, ...args) handing the event to #sysEvents as well.
PublicEmitForwards(s, event, arg) ==
    [s EXCEPT !.emitted = Append(@, <<event, arg>>),
              !.received = IF s.listeners THEN Append(@, <<event, arg>>) ELSE @,
              !.sysEmitted = IF s.sysEventsUsed THEN Append(@, <<event, arg>>) ELSE @,
              !.sysReceived = IF s.sysEventsUsed /\ s.sysListeners
                              THEN Append(@, <<event, arg>>) ELSE @,
              !.trace = Append(@, <<"emit", event, arg>>)]

\* The public emit(event, ...args): this.#events.emit(event, ...args) and
\* nothing else.
PublicEmit(s, event, arg) ==
    [s EXCEPT !.emitted = Append(@, <<event, arg>>),
              !.received = IF s.listeners THEN Append(@, <<event, arg>>) ELSE @,
              !.trace = Append(@, <<"emit", event, arg>>)]

\* on(event, listener), for a listener of every event.
On(s) == [s EXCEPT !.listeners = TRUE]

\* The holder of the emitter that getSysEvents() returned subscribes to it.
SysOn(s) == [s EXCEPT !.sysListeners = TRUE]

\* ------------------------------------------- getSysEvents() (lines 129-138)
GetSysEvents(s) ==
    IF s.sysEventsUsed THEN [s EXCEPT !.escaped = "Error"]
    ELSE [s EXCEPT !.sysEventsUsed = TRUE, !.sysGrants = @ + 1]

\* ------------------------------------------------- getters (lines 455-484)
\* Result: [threw |-> did the getter throw, value |-> what it returned].
GetTolerance(s) ==
    IF LtEq(s.tolerance, 0) THEN [threw |-> TRUE, value |-> 0]
    ELSE [threw |-> FALSE, value |-> s.tolerance]

GetMaxBufferBack(s) ==
    IF s.maxBufferBack = NaN \/ s.maxBufferBack % Second # 0 \/ LtEq(s.maxBufferBack, 0)
    THEN [threw |-> TRUE, value |-> 0]
    ELSE [threw |-> FALSE, value |-> s.maxBufferBack]

\* ---------------------------------------------------------------- actions
\* Each action computes the receiver as the callback leaves it (after) and
\* makes it the next state.
\* new TinyMediaReceiver({element, mimeType, maxBufferBack, cleanupTime,
\* bufferTolerance}) with any options.
Construct ==
    /\ ctor = "new"
    /\ \E supported \in BOOLEAN, mb \in MaxBackInputs, ct \in CleanupTimeInputs,
          bt \in ToleranceInputs, el \in ElementInputs :
          \E after \in {Constructor(Enter(State, "constructor"), supported, mb, ct, bt, el)} : Commit(after)

\* The receivers the constructor returns for the accepted options.
Constructed ==
    {Constructor(Enter(Blank, "constructor"), TRUE, mb, Num(DefaultCleanupTime), bt, "audio") :
        mb \in {x \in MaxBackInputs : IsPositiveInteger(x)},
        bt \in {x \in ToleranceInputs : IsPositiveNumber(x)}}

\* Init: a receiver right after its construction has succeeded.  The options
\* it was built from live on in its fields only.
Init == \E s \in Constructed : StartAt([s EXCEPT !.args = NoArgs])

\* CtorInit: the moment before new TinyMediaReceiver(...) is evaluated.
CtorInit == StartAt(Blank)

\* --------------------------------------------------- several receivers
\* Every receiver is an object of its own: all of its state is in its own
\* fields (this.queue, this.sourceBuffer, this.#element, this.#cleanupBuffer,
\* ...), so a callback of receiver i replaces receiver i and nothing else.
\* It becomes the last thing that happened: actor is i and mlast is empty.
\* The interval id kept in one place shared by all receivers: a callback that
\* starts or clears the timer does it for every receiver.
PutSharedTimer(i, after) ==
    /\ instances' = [j \in DOMAIN instances |->
                        IF j = i THEN after
                        ELSE [instances[j] EXCEPT !.timer = after.timer]]
    /\ actor' = i /\ mlast' = NoCall
    /\ UNCHANGED <<receiverVars, streams, owner>>

Put(i, after) ==
    /\ instances' = [instances EXCEPT ![i] = after]
    /\ actor' = i /\ mlast' = NoCall
    /\ UNCHANGED <<receiverVars, streams, owner>>

\* The receiver a callback runs on: number 0 is the one held in the
\* variables, number i > 0 is instances[i].
Exists(i) == i = 0 \/ i \in DOMAIN instances

ReceiverAt(i) == IF i = 0 THEN State ELSE instances[i]

\* The callback of receiver i has left it as after.
Done(i, after) == IF i = 0 THEN Commit(after) ELSE Put(i, after)

\* The callbacks of receiver i, one step for every answer of the platform.
\* The MediaSource attached by the constructor opens; its sourceopen
\* listener runs.
SourceOpenAt(i) ==
    /\ Exists(i) /\ ReceiverAt(i).ctor = "ok" /\ ReceiverAt(i).readyState = "closed"
    /\ \E supported \in BOOLEAN, ok \in BOOLEAN :
          \E after \in {OnSourceOpen([Enter(ReceiverAt(i), "sourceopen")
                                          EXCEPT !.readyState = "open"],
                                      supported, ok)} : Done(i, after)

\* push(buffer) / pushChunk(buffer) with a fresh chunk, at most limit times.
PushAt(i, limit) ==
    /\ Exists(i) /\ ReceiverAt(i).ctor = "ok" /\ ReceiverAt(i).pushCalls < limit
    /\ \E ok \in BOOLEAN :
          \E after \in {PushChunk([Enter(ReceiverAt(i), "push") EXCEPT !.pushCalls = @ + 1],
                                   ReceiverAt(i).pushCalls + 1, ok)} : Done(i, after)

\* The outstanding append/remove completes and its updateend listener runs.
UpdateEndAt(i) ==
    /\ Exists(i) /\ ReceiverAt(i).ctor = "ok" /\ ReceiverAt(i).updating
    /\ \E ok \in BOOLEAN :
          \E after \in {FeedQueue(ApplyOp(Enter(ReceiverAt(i), "updateend")), ok)} :
              Done(i, after)

\* One firing of the setInterval(() => this._cleanupBuffer(), cleanupTime).
TickAt(i) ==
    /\ Exists(i) /\ ReceiverAt(i).ctor = "ok" /\ ReceiverAt(i).timer
    /\ \E removeOk \in BOOLEAN :
          \E after \in {CleanupBuffer(Enter(ReceiverAt(i), "tick"), removeOk)} :
              Done(i, after)

\* destroy() called by the owner of the receiver.
DestroyAt(i) ==
    /\ Exists(i) /\ ReceiverAt(i).ctor = "ok"
    /\ ReceiverAt(i).destroyCalls < MaxDestroyCalls
    /\ \E after \in {Destroy([Enter(ReceiverAt(i), "destroy")
                                   EXCEPT !.destroyCalls = @ + 1])} : Done(i, after)

\* One firing of the setTimeout(tryEnd, 100).
TryEndAt(i) ==
    /\ Exists(i) /\ ReceiverAt(i).ctor = "ok" /\ ReceiverAt(i).tryEndScheduled
    /\ \E after \in {TryEnd([Enter(ReceiverAt(i), "tryEnd")
                                  EXCEPT !.tryEndScheduled = ReceiverAt(i).polls > 1,
                                         !.polls = @ - 1])} : Done(i, after)

\* The same callbacks for the one receiver held in the variables.
SourceOpen == SourceOpenAt(0)

Push == PushAt(0, MaxPushes)

UpdateEnd == UpdateEndAt(0)

JanitorTick == TickAt(0)

DestroyCall == DestroyAt(0)

TryEndPoll == TryEndAt(0)

\* Playback or a seek leaves the cursor of the sink somewhere else.  The
\* positions explored are the ones the janitor's comparisons tell apart.
CursorPositions ==
    LET tol == IF tolerance = NaN THEN IdealBack ELSE tolerance
    IN  {t \in {0, bufStart, bufEnd, bufEnd + 1, bufEnd - IdealBack,
                bufEnd - tol, bufEnd - tol + 1,
                bufEnd - maxBufferBack, bufEnd - maxBufferBack - 1,
                bufEnd - maxBufferBack + tol,
                bufEnd - maxBufferBack + tol - 1} : t >= 0}

CursorMoves ==
    /\ ctor = "ok" /\ element
    /\ \E t \in CursorPositions \ {currentTime} :
          \E after \in {[Enter(State, "playback") EXCEPT !.currentTime = t]} : Commit(after)

SetToleranceCall ==
    /\ ctor = "ok"
    /\ \E v \in ToleranceInputs :
          \E after \in {SetTolerance(Enter(State, "setTolerance"), v)} : Commit(after)

SetMaxBufferBackCall ==
    /\ ctor = "ok"
    /\ \E v \in MaxBackInputs :
          \E after \in {SetMaxBufferBack(Enter(State, "setMaxBufferBack"), v)} : Commit(after)

\* getSysEvents() called by a subclass or anyone else.
GetSysEventsCall ==
    /\ ctor = "ok" /\ sysCalls < MaxSysCalls
    /\ \E after \in {GetSysEvents([Enter(State, "getSysEvents") EXCEPT !.sysCalls = @ + 1])} :
          Commit(after)

Next ==
    \/ SourceOpen
    \/ Push
    \/ UpdateEnd
    \/ JanitorTick
    \/ DestroyCall
    \/ TryEndPoll
    \/ CursorMoves
    \/ SetToleranceCall
    \/ SetMaxBufferBackCall

Spec == Init /\ [][Next]_vars

\* The constructor alone, over every combination of options.
CtorNext == Construct

CtorSpec == CtorInit /\ [][CtorNext]_vars

\* The feeding and teardown side of the receiver on its own: pushes,
\* source-open, completions, janitor ticks, destroy and its poll, for every
\* accepted configuration.  The browser delivers what it has promised: an
\* outstanding operation completes, a pending timeout and the interval fire,
\* the attached MediaSource opens.
FeedNext ==
    \/ SourceOpen
    \/ Push
    \/ UpdateEnd
    \/ JanitorTick
    \/ DestroyCall
    \/ TryEndPoll

FairSpec ==
    /\ Init /\ [][FeedNext]_vars
    /\ WF_vars(UpdateEnd) /\ WF_vars(TryEndPoll) /\ WF_vars(JanitorTick)
    /\ WF_vars(SourceOpen)

\* ------------------------------------------------------------- scenario
\* A receiver built with maxBufferBack = 1, bufferTolerance at its default
\* of 0.1 s or at half of it, and the other options at their defaults, is fed
\* ScenarioChunks one-second chunks one after another, each pushed only when
\* no append is outstanding and none is waiting; the platform accepts every
\* append and remove; the janitor ticks at any moment.
ScenarioReceivers ==
    {Constructor(Enter(Blank, "constructor"), TRUE, Num(Second),
                 Num(DefaultCleanupTime), bt, "audio") :
        bt \in {Num(DefaultBufferTolerance), Num(1)}}

ScenarioInit == \E s \in ScenarioReceivers : StartAt([s EXCEPT !.args = NoArgs])

ScenarioOpen ==
    /\ readyState = "closed"
    /\ \E after \in {OnSourceOpen([Enter(State, "sourceopen") EXCEPT !.readyState = "open"],
                                  TRUE, TRUE)} : Commit(after)

ScenarioPush ==
    /\ pushCalls < ScenarioChunks
    /\ queue = <<>> /\ op.kind # "append"
    /\ \E after \in {PushChunk([Enter(State, "push") EXCEPT !.pushCalls = @ + 1],
                               pushCalls + 1, TRUE)} : Commit(after)

ScenarioUpdateEnd ==
    /\ updating
    /\ \E after \in {FeedQueue(ApplyOp(Enter(State, "updateend")), TRUE)} : Commit(after)

ScenarioTick ==
    /\ timer
    /\ \E after \in {CleanupBuffer(Enter(State, "tick"), TRUE)} : Commit(after)

ScenarioNext ==
    \/ ScenarioOpen
    \/ ScenarioPush
    \/ ScenarioUpdateEnd
    \/ ScenarioTick

ScenarioSpec == ScenarioInit /\ [][ScenarioNext]_vars

\* The setters on their own, at any moment of the receiver's life (before and
\* after source-open, during and after destroy), each call kept with its
\* argument.
SetToleranceObserved ==
    /\ ctor = "ok"
    /\ \E v \in ToleranceInputs :
          \E after \in {[SetTolerance(Enter(State, "setTolerance"), v) EXCEPT !.args = v]} :
              Commit(after)

SetMaxBufferBackObserved ==
    /\ ctor = "ok"
    /\ \E v \in MaxBackInputs :
          \E after \in {[SetMaxBufferBack(Enter(State, "setMaxBufferBack"), v)
                              EXCEPT !.args = v]} : Commit(after)

SetterNext ==
    \/ SetToleranceObserved
    \/ SetMaxBufferBackObserved
    \/ SourceOpen
    \/ DestroyCall

SetterSpec == Init /\ [][SetterNext]_vars

\* The callbacks of any of the receivers that exist.
AnySourceOpen == \E i \in 1..MaxReceivers : SourceOpenAt(i)

AnyPush == \E i \in 1..MaxReceivers : PushAt(i, MaxPushesEach)

\* A first chunk pushed to a receiver the manager has handed out.
AnyFirstPush == \E i \in 1..MaxReceivers : PushAt(i, 1)

AnyUpdateEnd == \E i \in 1..MaxReceivers : UpdateEndAt(i)

AnyTick == \E i \in 1..MaxReceivers : TickAt(i)

AnyDestroy == \E i \in 1..MaxReceivers : DestroyAt(i)

AnyTryEnd == \E i \in 1..MaxReceivers : TryEndAt(i)

\* Two receivers, each built on a sink of its own ('audio' makes the
\* constructor create a new element), with maxBufferBack 1 s.
PairReceiver ==
    Constructor(Enter(Blank, "constructor"), TRUE, Num(Second),
                Num(DefaultCleanupTime), Num(DefaultBufferTolerance), "audio")

PairInit ==
    /\ ReceiverIs(Blank)
    /\ instances = <<[PairReceiver EXCEPT !.args = NoArgs],
                     [PairReceiver EXCEPT !.args = NoArgs]>>
    /\ actor = 0 /\ streams = <<>> /\ owner = <<>> /\ mlast = NoCall

PairNext ==
    \/ AnySourceOpen
    \/ AnyPush
    \/ AnyUpdateEnd
    \/ AnyTick
    \/ AnyDestroy
    \/ AnyTryEnd

PairSpec == PairInit /\ [][PairNext]_vars

\* ------------------------------------------- the manager's receivers
\* TinyStreamManager keeps its receivers in #streams, a Map from a media id
\* to the receiver.  A string is held as the sequence of its pieces, the
\* colon being a piece of its own, so that two strings are equal exactly
\* when their sequences are; an argument is [str |-> is it a string, s |->
\* the string].
Str(pieces) == [str |-> TRUE, s |-> pieces]
NotAString == [str |-> FALSE, s |-> <<>>]

\* #getMediaId(userId, type, mime, elementName): the checks, then the
\* template string `${userId}:${type}:${mime}:${elementName}`.
\* Result: [threw |-> did it throw, id |-> the media id].
GetMediaId(userId, type, mime, elementName) ==
    IF ~userId.str \/ ~type.str \/ ~mime.str \/ ~elementName.str
    THEN [threw |-> TRUE, id |-> <<>>]
    ELSE IF elementName.s \notin {<<"audio">>, <<"video">>}
    THEN [threw |-> TRUE, id |-> <<>>]
    ELSE IF type.s \notin {<<"mic">>, <<"cam">>, <<"screen">>}
    THEN [threw |-> TRUE, id |-> <<>>]
    ELSE [threw |-> FALSE,
          id |-> userId.s \o <<":">> \o type.s \o <<":">> \o mime.s
                     \o <<":">> \o elementName.s]

\* The keys (userId, type, mime, elementName) the manager is called with:
\* three proper keys, the first two of them with a colon inside the user id
\* or the MIME string, and one that #getMediaId rejects.
KeyInputs ==
    {<<Str(<<"u", ":", "mic">>), Str(<<"cam">>), Str(<<"m">>), Str(<<"audio">>)>>,
     <<Str(<<"u">>), Str(<<"mic">>), Str(<<"cam", ":", "m">>), Str(<<"audio">>)>>,
     <<Str(<<"u">>), Str(<<"mic">>), Str(<<"m">>), Str(<<"audio">>)>>,
     <<Str(<<"u">>), Str(<<"speaker">>), Str(<<"m">>), Str(<<"audio">>)>>}

\* The manager as one record.
Manager == [streams |-> streams, instances |-> instances, owner |-> owner, mlast |-> mlast]

\* The outcome of a manager call.
Threw(call, key) ==
    [call |-> call, key |-> key, threw |-> TRUE, result |-> 0, events |-> <<>>]
Returned(call, key, receiver, events) ==
    [call |-> call, key |-> key, threw |-> FALSE, result |-> receiver, events |-> events]

\* hasReceiver(userId, type, mime, elementName).
\* Result: [threw |-> did it throw, value |-> what it returned].
HasReceiver(m, key) ==
    LET g == GetMediaId(key[1], key[2], key[3], key[4])
    IN  [threw |-> g.threw, value |-> ~g.threw /\ g.id \in DOMAIN m.streams]

\* deleteReceiver(userId, type, mime, elementName): destroy() on the
\* receiver, then the entry is deleted and ReceiverDeleted emitted.
DeleteReceiver(m, key) ==
    LET g == GetMediaId(key[1], key[2], key[3], key[4])
    IN  IF g.threw THEN [m EXCEPT !.mlast = Threw("deleteReceiver", key)]
        ELSE IF g.id \notin DOMAIN m.streams
        THEN [m EXCEPT !.mlast = Threw("deleteReceiver", key)]
        ELSE
          LET r == m.streams[g.id]
              destroyed == Destroy([Enter(m.instances[r], "destroy")
                                       EXCEPT !.destroyCalls = @ + 1])
          IN  IF destroyed.escaped # "none"
              THEN [m EXCEPT !.instances[r] = destroyed,
                             !.mlast = Threw("deleteReceiver", key)]
              ELSE [m EXCEPT !.instances[r] = destroyed,
                             !.streams = [x \in DOMAIN m.streams \ {g.id} |-> m.streams[x]],
                             !.mlast = Returned("deleteReceiver", key, r,
                                                <<<<"ReceiverDeleted", r>>>>)]

\* initReceiver(userId, type, mime, elementName): the receiver already kept
\* under the media id, or a new TinyMediaReceiver(elementName, mime) put
\* there, with ReceiverAdded emitted.  The constructor gets the element and
\* the MIME type and takes its defaults for the rest; when it throws
\* (supported = FALSE: MediaSource.isTypeSupported(mime) says no) so does
\* initReceiver, before anything is stored.
InitReceiver(m, key, supported) ==
    LET g == GetMediaId(key[1], key[2], key[3], key[4])
    IN  IF g.threw THEN [m EXCEPT !.mlast = Threw("initReceiver", key)]
        ELSE IF g.id \in DOMAIN m.streams
        THEN [m EXCEPT !.mlast = Returned("initReceiver", key, m.streams[g.id], <<>>)]
        ELSE
          LET receiver == Constructor(Enter(Blank, "constructor"), supported,
                                      Num(DefaultMaxBufferBack), Num(DefaultCleanupTime),
                                      Num(DefaultBufferTolerance), key[4].s[1])
              r == Len(m.instances) + 1
          IN  IF receiver.ctor # "ok"
              THEN [m EXCEPT !.mlast = Threw("initReceiver", key)]
              ELSE [m EXCEPT !.instances = Append(@, [receiver EXCEPT !.args = NoArgs]),
                             !.owner = Append(@, key),
                             !.streams = [x \in DOMAIN m.streams \cup {g.id} |->
                                             IF x = g.id THEN r ELSE m.streams[x]],
                             !.mlast = Returned("initReceiver", key, r,
                                                <<<<"ReceiverAdded", r>>>>)]

\* The manager is as m says; the call was the manager's, not a receiver's.
CommitManager(m) ==
    /\ streams' = m.streams /\ instances' = m.instances /\ owner' = m.owner
    /\ mlast' = m.mlast /\ actor' = 0
    /\ UNCHANGED receiverVars

InitReceiverCall ==
    \E key \in KeyInputs, supported \in BOOLEAN :
        \E after \in {InitReceiver(Manager, key, supported)} :
            Len(after.instances) <= MaxReceivers /\ CommitManager(after)

DeleteReceiverCall ==
    \E key \in KeyInputs :
        \E after \in {DeleteReceiver(Manager, key)} : CommitManager(after)

\* A manager without receivers.
ManagerInit ==
    /\ ReceiverIs(Blank)
    /\ instances = <<>> /\ actor = 0 /\ streams = <<>> /\ owner = <<>> /\ mlast = NoCall

ManagerNext ==
    \/ InitReceiverCall
    \/ DeleteReceiverCall
    \/ AnySourceOpen
    \/ AnyFirstPush
    \/ AnyUpdateEnd
    \/ AnyTryEnd

\* The manager and its receivers.  The browser delivers what it has promised
\* to every receiver: an outstanding operation completes, a pending timeout
\* and the interval fire, the attached MediaSource opens.
ManagerSpec ==
    /\ ManagerInit /\ [][ManagerNext]_vars
    /\ \A i \in 1..MaxReceivers :
          /\ WF_vars(SourceOpenAt(i)) /\ WF_vars(UpdateEndAt(i))
          /\ WF_vars(TryEndAt(i))

\* -------------------------------------------------------------- listeners
\* The payload of an event a caller emits, as opposed to the receiver.
Injected == -1

InjectedEvents == {"Destroyed", "Error", "FeedQueue"}

OnCall ==
    /\ ctor = "ok" /\ ~listeners
    /\ \E after \in {On(Enter(State, "on"))} : Commit(after)

SysOnCall ==
    /\ ctor = "ok" /\ sysGrants >= 1 /\ ~sysListeners
    /\ \E after \in {SysOn(Enter(State, "sysOn"))} : Commit(after)

PublicEmitCall ==
    /\ ctor = "ok"
    /\ \E event \in InjectedEvents :
          \E after \in {PublicEmit(Enter(State, "emit"), event, Injected)} : Commit(after)

PushFew == PushAt(0, MaxPushesEach)

\* One receiver with listeners coming and going on both emitters, events
\* emitted by callers, and its feeding and teardown.
ListenerInit == StartAt([PairReceiver EXCEPT !.args = NoArgs])

ListenerNext ==
    \/ SourceOpen
    \/ PushFew
    \/ UpdateEnd
    \/ JanitorTick
    \/ DestroyCall
    \/ TryEndPoll
    \/ GetSysEventsCall
    \/ OnCall
    \/ SysOnCall
    \/ PublicEmitCall

ListenerSpec == ListenerInit /\ [][ListenerNext]_vars

\* The receiver with its internal event channel: feeding and teardown, and
\* getSysEvents() called at any moment.
EventNext ==
    \/ FeedNext
    \/ GetSysEventsCall

EventSpec == Init /\ [][EventNext]_vars

\* ================================================================ claims

IsPrefix(a, b) == Len(a) <= Len(b) /\ \A i \in 1..Len(a) : a[i] = b[i]

\* C1: at every moment the chunks handed to appendBuffer are a prefix of the
\* chunks accepted by push: same order, none twice, none skipped.
C1_AppendsArePrefixOfPushes == IsPrefix(appendCalls, accepted)

\* Three chunks have gone to the buffer in turn, a remove has trimmed it,
\* and a later chunk still waits in the queue.
C1_Witness ==
    /\ Len(appendCalls) >= 3 /\ Len(queue) >= 1 /\ bufStart > 0
    /\ readyState = "open"

\* C2: no append or remove is ever issued while the buffer is updating, so
\* at most one operation is outstanding.
C2_SingleFlight == busyCalls = 0 /\ (updating <=> op.kind # "none")

\* The janitor has just ticked while an operation was outstanding and
\* chunks were waiting, and has left the buffer alone.
C2_Witness ==
    /\ last = "tick" /\ updating /\ Len(queue) >= 1 /\ bufEnd > bufStart
    /\ emitted = <<>>

\* C3: two destroy() calls give exactly one Destroyed event overall, and
\* neither throws.  Once both calls are made and no teardown poll is left
\* pending, the event count is final.
C3_DestroyTwiceOneEvent ==
    /\ destroyedCount <= 1
    /\ (last = "destroy" => escaped = "none")
    /\ (destroyCalls >= 2 /\ ~tryEndScheduled => destroyedCount = 1)

\* C4: after destroy() has been invoked, a push returns without throwing and
\* leaves the pending queue as it was.
C4_PushAfterDestroyInert ==
    [][(destroyCalls >= 1 /\ pushCalls' = pushCalls + 1)
          => (queue' = queue /\ escaped' = "none")]_vars

Destroyed == destroyedCount = 1 /\ eos = 1 /\ ~element /\ ~timer

\* C5: once destroy() has been called, and with every outstanding operation
\* completing and every timer firing, the receiver reaches Destroyed:
\* end-of-stream signalled, sink released, interval cancelled, Destroyed
\* emitted.
C5_DestroyReachesDestroyed == (destroyCalls >= 1) ~> Destroyed

Min(S) == CHOOSE x \in S : \A y \in S : x <= y

\* C6: when appendBuffer throws on chunk k, Error is emitted exactly once
\* with that failure, nothing escapes push(), the receiver is Destroyed
\* (event emitted, timer cancelled) by the end of that feed step, and no
\* chunk queued after k is ever handed to appendBuffer.
C6_AppendFailureDestroys ==
    /\ (last = "push" => escaped = "none")
    /\ failedAt # {} =>
          /\ errors = << <<"append", appendCalls[Min(failedAt)]>> >>
          /\ destroyedCount = 1 /\ ~timer
          /\ Len(appendCalls) = Min(failedAt)

Emitted(event) == \E i \in 1..Len(emitted) : emitted[i][1] = event

\* The cursor is inside the retention window [bufferEnd - maxBufferBack,
\* bufferEnd], give or take the tolerance.
CursorNearWindow ==
    /\ currentTime >= bufEnd - maxBufferBack - tolerance
    /\ currentTime <= bufEnd + tolerance

\* The cursor is inside the retention window itself.
CursorInWindow ==
    /\ currentTime >= bufEnd - maxBufferBack
    /\ currentTime <= bufEnd

\* C7 as stated: after any janitor tick on a receiver whose buffer is
\* non-empty, the cursor lies within the retention window, within tolerance.
C7_CursorContainedAfterAnyTick ==
    (last = "tick" /\ bufStart # bufEnd) => CursorNearWindow

\* C7, amended: a janitor tick that finds the buffer non-empty and idle (not
\* updating) leaves the cursor within [bufferEnd - maxBufferBack, bufferEnd],
\* when the tolerance is a number greater than zero (not NaN).
C7_CursorContainedAfterIdleTick ==
    [][(/\ last' = "tick" /\ sourceBuffer /\ element /\ ~updating
        /\ bufStart # bufEnd /\ tolerance # NaN)
          => CursorInWindow']_vars

\* A tick on an idle, non-empty buffer has just pulled a cursor that lay
\* outside the window back to bufferEnd - 0.1 s.
C7_Witness ==
    /\ last = "tick" /\ Emitted("SyncTime") /\ bufStart # bufEnd
    /\ currentTime = bufEnd - IdealBack /\ bufEnd >= 2 * Second

\* C8: when the remove issued by a tick that found more than maxBufferBack +
\* tolerance buffered completes, at most that tick's maxBufferBack stays
\* buffered; and while the remove is outstanding no append is issued and the
\* buffer does not grow.
C8_TrimLeavesAtMostMaxBack ==
    [][op.kind = "remove" =>
          IF op' = op
          THEN bufEnd' = bufEnd /\ bufStart' = bufStart /\ appendCalls' = appendCalls
          ELSE bufEnd' - bufStart' <= op.maxBack]_vars

\* A remove has just completed with chunks waiting in the queue: the
\* buffer is down to maxBufferBack and the next chunk went to appendBuffer
\* only now.
C8_Witness ==
    /\ last = "updateend" /\ bufStart > 0 /\ bufEnd - bufStart = maxBufferBack
    /\ op.kind = "append" /\ Emitted("FeedQueue")

InSeq(x, q) == \E i \in 1..Len(q) : q[i] = x

AppendFailed == failedAt # {}

MimeRejected == InSeq(<<"mime", 0>>, errors)

\* C9 as stated: every chunk accepted by push is eventually handed to
\* appendBuffer, provided operations complete and no append fails.
C9_AcceptedEventuallyAppended ==
    \A c \in 1..MaxPushes :
        InSeq(c, accepted) ~> (InSeq(c, appendCalls) \/ AppendFailed)

\* C9, amended: ... provided operations complete, no append fails and the
\* MIME check made at source-open succeeds.
C9_AcceptedEventuallyAppendedIfOpened ==
    \A c \in 1..MaxPushes :
        InSeq(c, accepted) ~> (InSeq(c, appendCalls) \/ AppendFailed \/ MimeRejected)

\* Chunks pushed before source-open: the source-open handler has just fed
\* the first one and the rest wait for its completion.
C9_Witness ==
    /\ last = "sourceopen" /\ Emitted("FeedQueue") /\ Len(queue) >= 2
    /\ op.kind = "append" /\ op.chunk = accepted[1]

\* The options the constructor is documented to reject.
RejectedOptions(a) ==
    \/ ~a.supported
    \/ ~(/\ a.maxBufferBack.num /\ a.maxBufferBack.v # NaN
          /\ a.maxBufferBack.v > 0 /\ a.maxBufferBack.v % Second = 0)
    \/ ~(a.cleanupTime.num /\ a.cleanupTime.v # NaN /\ a.cleanupTime.v > 0)
    \/ ~(a.bufferTolerance.num /\ a.bufferTolerance.v # NaN /\ a.bufferTolerance.v > 0)
    \/ a.element \notin {"audio", "video", "HTMLMediaElement"}

\* C10: the constructor throws on an unsupported MIME type, a maxBufferBack
\* that is not a positive integer, a cleanupTime or bufferTolerance that is
\* not a positive number, or an element that is neither 'audio'/'video' nor
\* a media element; and whenever it throws, no interval has been started and
\* the sink's src has not been assigned.
C10_ConstructorFailsCleanly ==
    ctor # "new" =>
        /\ (RejectedOptions(args) <=> ctor = "threw")
        /\ (ctor = "threw" => escaped = "Error" /\ ~timer /\ ~srcSet /\ ~element)
        /\ (ctor = "ok" => timer /\ srcSet /\ element)

\* The constructor has thrown at its last test, the element option, after
\* every numeric option had passed and the fields had been assigned.
C10_Witness ==
    /\ ctor = "threw" /\ mimeType /\ args.supported /\ args.element = "div"
    /\ maxBufferBack = args.maxBufferBack.v

\* ---------------------------------------------------------------- C11
\* C11: once the receiver is Destroyed (teardown has run), no later push,
\* destroy, janitor tick, timer callback or buffer completion appends,
\* removes, moves the cursor or emits an event: Destroyed is absorbing.
C11_DestroyedIsAbsorbing ==
    [][destroyedCount >= 1 =>
          /\ appendCalls' = appendCalls /\ accepted' = accepted
          /\ op' = op /\ updating' = updating
          /\ bufStart' = bufStart /\ bufEnd' = bufEnd
          /\ currentTime' = currentTime
          /\ errors' = errors /\ destroyedCount' = destroyedCount
          /\ (emitted' = <<>> \/ emitted' = emitted)
          /\ eos' = eos /\ ~timer' /\ ~element' /\ isEnded']_vars

\* A push() has been made on a Destroyed receiver and left no trace.
C11_Witness ==
    /\ last = "push" /\ destroyedCount = 1 /\ emitted = <<>>
    /\ readyState = "ended" /\ Len(appendCalls) >= 1

\* ---------------------------------------------------------------- C12
\* C12: whenever a janitor tick runs on an idle, non-empty buffer while
\* currentTime is outside the buffered range [bufferStart, bufferEnd], the
\* tick moves currentTime to a position inside the buffered range.
C12_TickBringsCursorIntoBuffer ==
    [][(/\ last' = "tick" /\ sourceBuffer /\ element /\ ~updating
        /\ bufStart # bufEnd
        /\ (currentTime < bufStart \/ currentTime > bufEnd))
       => (bufStart <= currentTime' /\ currentTime' <= bufEnd)]_vars

\* ---------------------------------------------------------------- C13
\* The stored limits are what the setters promise: maxBufferBack a positive
\* integer (whole seconds), tolerance a positive number.
LimitsArePositive ==
    /\ maxBufferBack # NaN /\ maxBufferBack > 0 /\ maxBufferBack % Second = 0
    /\ tolerance # NaN /\ tolerance > 0

\* C13: after any sequence of setMaxBufferBack() and setTolerance() calls
\* with arbitrary arguments, maxBufferBack is a positive integer and tolerance
\* a positive number; a call with a rejected value throws and leaves the
\* stored value unchanged, and getMaxBufferBack()/getTolerance() return the
\* last accepted value.
C13_SettersKeepLimitsPositive ==
    [][(last' \in {"setTolerance", "setMaxBufferBack"} /\ LimitsArePositive) =>
          /\ LimitsArePositive'
          /\ IF escaped' = "Error"
             THEN tolerance' = tolerance /\ maxBufferBack' = maxBufferBack
             ELSE IF last' = "setTolerance"
             THEN tolerance' = args'.v /\ maxBufferBack' = maxBufferBack
             ELSE maxBufferBack' = args'.v /\ tolerance' = tolerance
          /\ GetTolerance(State') = [threw |-> FALSE, value |-> tolerance']
          /\ GetMaxBufferBack(State') = [threw |-> FALSE, value |-> maxBufferBack']]_vars

\* ---------------------------------------------------------------- C19
\* C19: when the MIME support check fails as the sourceopen signal is
\* handled, the receiver emits Error and is destroyed: teardown completes
\* (Destroyed emitted, janitor timer cancelled, sink released) and no
\* exception escapes the handler.
C19_MimeFailureDestroys ==
    (last = "sourceopen" /\ InSeq(<<"Error", <<"mime", 0>>>>, emitted))
        => (Destroyed /\ Emitted("Destroyed") /\ escaped = "none")

\* ---------------------------------------------------------------- C20
\* C20: when destroy() is called while chunks are still in the pending queue
\* or an operation is outstanding, every chunk queued before the destroy()
\* call is appended, in order, before end-of-stream is signalled; on the
\* normal (non-error) path end-of-stream is never signalled with a non-empty
\* pending queue.
C20_QueueFlushedBeforeEndOfStream ==
    (eos >= 1 /\ ~AppendFailed) => (queue = <<>> /\ appendCalls = accepted)

\* destroy() found an append outstanding, the 100 ms poll has just signalled
\* end-of-stream, and every one of the four chunks accepted before destroy()
\* had been appended by then.
C20_Witness ==
    /\ last = "tryEnd" /\ eos = 1 /\ ~AppendFailed /\ destroyCalls = 1
    /\ Len(accepted) = MaxPushes /\ appendCalls = accepted /\ queue = <<>>

\* ---------------------------------------------------------------- C16
\* C16: getSysEvents() succeeds exactly once per receiver instance and every
\* later call throws; receiver lifecycle events are forwarded to the
\* internal channel only after that first successful call (and from then on
\* every one of them is).
C16_SysEventsGrantedOnce ==
    /\ sysGrants = (IF sysCalls >= 1 THEN 1 ELSE 0)
    /\ (sysEventsUsed <=> sysGrants = 1)
    /\ (last = "getSysEvents" => (escaped = "Error" <=> sysCalls >= 2))
    /\ sysEmitted = (IF sysGrants = 1 THEN emitted ELSE <<>>)

\* getSysEvents() has been called more than once, only one call returned
\* the emitter, and the last callback's events went to the internal channel.
C16_Witness ==
    /\ sysCalls >= 2 /\ sysGrants = 1 /\ last # "getSysEvents"
    /\ sysEmitted # <<>> /\ sysEmitted = emitted

\* ---------------------------------------------------------------- C15
\* Every chunk of the scenario has been appended and its append completed.
AllAppendsCompleted ==
    /\ Len(appendCalls) = ScenarioChunks
    /\ bufEnd = ScenarioChunks * ChunkDuration

\* C15: with maxBufferBack = 1 and five one-second chunks pushed one after
\* another, each append completing before the next push, under every
\* interleaving of janitor ticks: once all appends have completed, a janitor
\* tick on the idle buffer puts currentTime at bufferEnd - 0.1 and either
\* finds one second buffered or issues the remove that leaves exactly one
\* second buffered, with currentTime still bufferEnd - 0.1, when it
\* completes.
C15_FiveChunksTrimmedToOneSecond ==
    [][/\ (last' = "tick" /\ AllAppendsCompleted /\ ~updating) =>
             /\ currentTime' = bufEnd - IdealBack
             /\ IF bufEnd - bufStart = Second
                THEN ~updating' /\ bufStart' = bufStart
                ELSE op' = [kind |-> "remove", chunk |-> 0, from |-> bufStart,
                            to |-> bufEnd - Second, maxBack |-> Second]
       /\ (last' = "updateend" /\ AllAppendsCompleted /\ op.kind = "remove") =>
             /\ bufEnd' - bufStart' = Second /\ bufEnd' = bufEnd
             /\ currentTime' = bufEnd' - IdealBack
             /\ ~updating']_vars

\* All five appends have completed, the janitor has trimmed, and a further
\* tick finds one second buffered and the cursor 0.1 s before its end.
C15_Witness ==
    /\ AllAppendsCompleted /\ last = "tick" /\ ~updating
    /\ bufEnd - bufStart = Second /\ currentTime = bufEnd - IdealBack
    /\ maxBufferBack = Second

Range(f) == {f[x] : x \in DOMAIN f}

\* Receiver i exists and the manager no longer keeps it.
Deleted(i) == i \in DOMAIN instances /\ i \notin Range(streams)

\* Receiver i has been torn down: Destroyed emitted, end-of-stream
\* signalled, the element released and the cleanup timer stopped.
ReceiverDestroyed(i) ==
    /\ i \in DOMAIN instances
    /\ instances[i].destroyedCount = 1 /\ instances[i].eos = 1
    /\ ~instances[i].element /\ ~instances[i].timer

\* C17: deleteReceiver(userId, type, mime, element) on a registered key
\* removes the entry (hasReceiver then returns false), emits ReceiverDeleted
\* once, and releases the removed receiver's resources: that receiver
\* eventually reaches Destroyed with its cleanup timer stopped, whatever
\* state it was in when deleted; on an unregistered key the call throws and
\* changes nothing.
C17_DeleteReleasesReceiver ==
    /\ [][(actor' = 0 /\ mlast'.call = "deleteReceiver") =>
             IF HasReceiver(Manager, mlast'.key).value
             THEN /\ ~mlast'.threw
                  /\ ~HasReceiver(Manager', mlast'.key).value
                  /\ Len(mlast'.events) = 1
                  /\ mlast'.events[1][1] = "ReceiverDeleted"
                  /\ mlast'.result \in DOMAIN instances'
                  /\ mlast'.result \notin Range(streams')
             ELSE /\ mlast'.threw
                  /\ streams' = streams /\ instances' = instances]_vars
    /\ \A i \in 1..MaxReceivers : Deleted(i) ~> ReceiverDestroyed(i)

\* ---------------------------------------------------------------- C18
\* The receivers the manager keeps that initReceiver built for key.
Held(key) == {i \in Range(streams) : owner[i] = key}

\* C18: initReceiver is idempotent per key (userId, type, mime, element):
\* the first call creates exactly one receiver and emits ReceiverAdded once;
\* every later call with the same key returns that same instance without
\* creating a receiver or emitting; so the manager never holds two receivers
\* for one key, and after deleteReceiver a new call creates a fresh
\* instance.
C18_InitReceiverIdempotentPerKey ==
    /\ [][(actor' = 0 /\ mlast'.call = "initReceiver" /\ ~mlast'.threw) =>
             IF Held(mlast'.key) # {}
             THEN /\ mlast'.result \in Held(mlast'.key)
                  /\ instances' = instances /\ streams' = streams
                  /\ mlast'.events = <<>>
             ELSE /\ Len(instances') = Len(instances) + 1
                  /\ mlast'.result = Len(instances')
                  /\ owner'[mlast'.result] = mlast'.key
                  /\ mlast'.events = <<<<"ReceiverAdded", mlast'.result>>>>
                  /\ {i \in Range(streams') : owner'[i] = mlast'.key} = {mlast'.result}]_vars
    /\ [](\A i \in Range(streams), j \in Range(streams) : owner[i] = owner[j] => i = j)


\* ---------------------------------------------------------------- C21
\* The names of the calls and emits of the last callback, in order.
Steps == [i \in DOMAIN trace |-> <<trace[i][1], trace[i][2]>>]

\* C21: end-of-stream is signalled only when no append or remove is
\* outstanding and the media source is open (it is signalled once, by a
\* callback that leaves the buffer idle and the source 'ended', and only on a
\* source that has its SourceBuffer); a teardown poll that finds the buffer
\* busy changes nothing and sets the next timeout; and at most one timeout of
\* the poll is pending per receiver.
C21_EndOfStreamOnlyWhenIdle ==
    /\ [][eos' # eos =>
             /\ eos = 0 /\ eos' = 1 /\ sourceBuffer'
             /\ ~updating' /\ op' = NoOp /\ busyCalls' = busyCalls
             /\ readyState' = "ended"]_vars
    /\ [][(last' = "tryEnd" /\ updating) =>
             State' = [Enter(State, "tryEnd")
                          EXCEPT !.trace = <<<<"call", "setTimeout", 0>>>>]]_vars
    /\ [](/\ polls <= 1 /\ (tryEndScheduled <=> polls = 1)
          /\ (readyState = "ended" <=> eos = 1)
          /\ (sourceBuffer => readyState # "closed"))

\* destroy() was called while an append was outstanding and again since; the
\* poll has just found the buffer still busy, with a chunk waiting, and has
\* set its next timeout.
C21_Witness ==
    /\ last = "tryEnd" /\ updating /\ polls = 1 /\ destroyCalls = 2
    /\ Len(queue) >= 1 /\ eos = 0 /\ Steps = <<<<"call", "setTimeout">>>>


\* ---------------------------------------------------------------- C22
\* What teardown does, in order.
TeardownSteps ==
    <<<<"call", "endOfStream">>, <<"call", "revokeObjectURL">>,
      <<"call", "element.remove">>, <<"call", "clearInterval">>,
      <<"emit", "Destroyed">>, <<"call", "events.removeAllListeners">>,
      <<"call", "sysEvents.removeAllListeners">>>>

\* How many times the receiver's own event is in the sequence q of events.
Count(q, event) ==
    Cardinality({i \in DOMAIN q : q[i][1] = event /\ q[i][2] # Injected})

\* C22: teardown signals end-of-stream, releases the sink element, cancels
\* the janitor interval, emits Destroyed and then removes all listeners, in
\* this order and within one callback; so the listeners subscribed when it
\* runs get Destroyed exactly once (teardown happens once, and only teardown
\* delivers the receiver's Destroyed), and after it neither the public nor
\* the internal emitter has a listener.
C22_TeardownOrder ==
    /\ [][destroyedCount' # destroyedCount =>
             /\ Len(Steps') >= Len(TeardownSteps)
             /\ SubSeq(Steps', Len(Steps') - Len(TeardownSteps) + 1, Len(Steps'))
                    = TeardownSteps
             /\ eos' = eos + 1 /\ element /\ ~element' /\ timer /\ ~timer'
             /\ (listeners => Count(received', "Destroyed") = 1)
             /\ (sysEventsUsed /\ sysListeners => Count(sysReceived', "Destroyed") = 1)
             /\ ~listeners' /\ ~sysListeners']_vars
    /\ [][destroyedCount' = destroyedCount =>
             /\ Count(received', "Destroyed") = 0
             /\ Count(sysReceived', "Destroyed") = 0]_vars
    /\ [](destroyedCount <= 1)

\* The poll of destroy() has just torn the receiver down; the listeners of
\* both emitters got Destroyed and are gone.
C22_Witness ==
    /\ last = "tryEnd" /\ destroyedCount = 1
    /\ received = <<<<"Destroyed", 0>>>> /\ sysReceived = <<<<"Destroyed", 0>>>>
    /\ ~listeners /\ ~sysListeners /\ Len(Steps) = Len(TeardownSteps)


\* ---------------------------------------------------------------- C23
\* C23: a janitor tick that finds the SourceBuffer not yet created, the sink
\* element released, the buffer updating or nothing buffered leaves the
\* buffer, the cursor and the pending queue as they were, makes no call and
\* emits neither BufferCleaned nor SyncTime.
C23_GuardedTickIsNoOp ==
    [][(/\ last' = "tick"
        /\ (~sourceBuffer \/ ~element \/ updating \/ bufStart = bufEnd))
       => /\ State' = Enter(State, "tick")
          /\ op' = op /\ updating' = updating
          /\ bufStart' = bufStart /\ bufEnd' = bufEnd
          /\ currentTime' = currentTime /\ queue' = queue
          /\ emitted' = <<>> /\ trace' = <<>>]_vars

\* The janitor has just ticked during an append, with two seconds buffered,
\* more than maxBufferBack, and the cursor far behind the window: it has
\* neither trimmed nor moved the cursor.
C23_Witness ==
    /\ last = "tick" /\ updating /\ op.kind = "append"
    /\ bufEnd - bufStart > maxBufferBack + tolerance /\ tolerance # NaN
    /\ currentTime < bufEnd - maxBufferBack /\ emitted = <<>>


\* ---------------------------------------------------------------- C24
\* The last callback called sourceBuffer.remove and the call threw.
RemoveThrew == \E i \in DOMAIN trace : trace[i][1] = "throw" /\ trace[i][2] = "remove"

\* The cursor is where the janitor corrects it.
CursorOutOfBand ==
    \/ Lt(currentTime, Plus(bufEnd - maxBufferBack, tolerance))
    \/ Gt(currentTime, Minus(bufEnd, tolerance))

\* C24: when the remove issued by a janitor tick throws, the tick does not
\* throw, emits no BufferCleaned, neither ends nor destroys the receiver,
\* still makes the cursor correction of that tick, and leaves the buffer
\* idle and over its limit with the interval running; the next tick on that
\* buffer calls remove with the same range again.
C24_RemoveFailureIsSkipped ==
    /\ [][(last' = "tick" /\ RemoveThrew') =>
             /\ escaped' = "none" /\ ~Emitted("BufferCleaned")'
             /\ isEnded' = isEnded /\ destroyedCount' = destroyedCount
             /\ eos' = eos /\ errors' = errors /\ timer' /\ element'
             /\ ~updating' /\ bufStart' = bufStart /\ bufEnd' = bufEnd
             /\ IF CursorOutOfBand
                THEN currentTime' = bufEnd - IdealBack /\ Emitted("SyncTime")'
                ELSE currentTime' = currentTime /\ emitted' = <<>>
             /\ Gt(bufEnd' - bufStart', Plus(maxBufferBack', tolerance'))]_vars
    /\ [][(last = "tick" /\ RemoveThrew /\ last' = "tick") =>
             \E i \in DOMAIN trace' :
                 /\ trace'[i][1] = "call" /\ trace'[i][2] = "remove"
                 /\ trace'[i][3] = <<bufStart, bufEnd - maxBufferBack>>]_vars

\* The remove of a tick on three buffered seconds has just thrown; the tick
\* has gone on to put the cursor at bufferEnd - 0.1 s and the receiver is
\* alive, its buffer idle and still over the limit.
C24_Witness ==
    /\ last = "tick" /\ RemoveThrew /\ ~updating /\ timer /\ ~isEnded
    /\ emitted = <<<<"SyncTime", bufEnd - IdealBack>>>>
    /\ currentTime = bufEnd - IdealBack /\ bufEnd - bufStart >= 3 * Second


\* ---------------------------------------------------------------- C25
\* The places in the sequence q of calls where sourceBuffer.remove is called.
RemoveCalls(q) == {i \in DOMAIN q : q[i][1] = "call" /\ q[i][2] = "remove"}

\* The janitor finds an idle, non-empty buffer holding more than
\* maxBufferBack + tolerance.
TrimDue ==
    /\ sourceBuffer /\ ~updating /\ bufStart # bufEnd
    /\ Gt(bufEnd - bufStart, Plus(maxBufferBack, tolerance))

\* C25: a janitor tick calls remove if and only if it runs on an idle
\* non-empty buffer with bufferEnd - bufferStart > maxBufferBack + tolerance;
\* it calls it once, with exactly [bufferStart, bufferEnd - maxBufferBack);
\* and it emits BufferCleaned, once and with that same range, if and only if
\* the call was made and did not throw.
C25_TrimExactlyWhenOverLimit ==
    [][last' = "tick" =>
          /\ (RemoveCalls(trace') # {} <=> TrimDue)
          /\ Cardinality(RemoveCalls(trace')) <= 1
          /\ \A i \in RemoveCalls(trace') :
                 trace'[i][3] = <<bufStart, bufEnd - maxBufferBack>>
          /\ (Emitted("BufferCleaned")' <=> (RemoveCalls(trace') # {} /\ ~RemoveThrew'))
          /\ Cardinality({i \in DOMAIN emitted' : emitted'[i][1] = "BufferCleaned"}) <= 1
          /\ \A i \in DOMAIN emitted' :
                 emitted'[i][1] = "BufferCleaned" =>
                     emitted'[i][2] = <<bufStart, bufEnd - maxBufferBack>>
          /\ (Emitted("BufferCleaned")' =>
                 op' = [kind |-> "remove", chunk |-> 0, from |-> bufStart,
                        to |-> bufEnd - maxBufferBack, maxBack |-> maxBufferBack])]_vars

\* A tick has just issued the remove of the first second of three buffered
\* ones, keeping maxBufferBack = 2 s, and has emitted BufferCleaned for it.
C25_Witness ==
    /\ last = "tick" /\ updating /\ maxBufferBack = 2 * Second
    /\ op.kind = "remove" /\ op.from = 0 /\ op.to = Second /\ bufEnd = 3 * Second
    /\ emitted[1] = <<"BufferCleaned", <<0, Second>>>>


\* ---------------------------------------------------------------- C26
IsFeedQueue(e) == e[1] = "FeedQueue"

\* The chunks announced by the FeedQueue events of the last callback.
Announced == [i \in DOMAIN SelectSeq(emitted, IsFeedQueue) |->
                 SelectSeq(emitted, IsFeedQueue)[i][2]]

\* Entry i of the record q of a callback is this call or emit.
At(q, i, kind, name, arg) ==
    /\ i \in DOMAIN q
    /\ q[i][1] = kind /\ q[i][2] = name /\ q[i][3] = arg

\* C26: every chunk handed to appendBuffer is announced by exactly one
\* FeedQueue event carrying it, emitted after the chunk has been taken off
\* the queue and immediately before appendBuffer is called with it; so the
\* FeedQueue payloads, in order, are the chunks for which an append was
\* attempted, and no chunk is announced twice.
C26_FeedQueueAnnouncesEachAppend ==
    /\ [][/\ appendCalls' = appendCalls \o Announced'
          /\ \A i \in DOMAIN trace' :
                (trace'[i][1] = "call" /\ trace'[i][2] = "appendBuffer") =>
                    /\ At(trace', i - 1, "emit", "FeedQueue", trace'[i][3])
                    /\ At(trace', i - 2, "call", "queue.shift", trace'[i][3])
                    /\ ~InSeq(trace'[i][3], queue')
          /\ \A i \in DOMAIN trace' :
                (trace'[i][1] = "emit" /\ trace'[i][2] = "FeedQueue") =>
                    At(trace', i + 1, "call", "appendBuffer", trace'[i][3])]_vars
    /\ [](\A i \in DOMAIN appendCalls, j \in DOMAIN appendCalls :
              appendCalls[i] = appendCalls[j] => i = j)

\* The completion of the first append has just fed the second chunk, whose
\* FeedQueue event came between its removal from the queue and its append,
\* and two more chunks wait.
C26_Witness ==
    /\ last = "updateend" /\ Announced = <<2>> /\ appendCalls = <<1, 2>>
    /\ At(trace, 1, "call", "queue.shift", 2) /\ At(trace, 2, "emit", "FeedQueue", 2)
    /\ At(trace, 3, "call", "appendBuffer", 2) /\ queue = <<3, 4>>


\* ---------------------------------------------------------------- C27
\* C27: cursor correction is stable: for every allowed tolerance and
\* maxBufferBack, after a janitor tick has forced currentTime to
\* bufferEnd - 0.1, a tick that follows with the same buffered range and the
\* same currentTime makes no correction and emits no SyncTime.
C27_CursorCorrectionStable ==
    [][(/\ last = "tick" /\ Emitted("SyncTime") /\ currentTime = bufEnd - IdealBack
        /\ last' = "tick" /\ bufStart' = bufStart /\ bufEnd' = bufEnd)
       => (~Emitted("SyncTime")' /\ currentTime' = currentTime)]_vars


\* ---------------------------------------------------------------- C28
\* C28: after any janitor tick that calls remove for [from, to), whether the
\* call throws or not, the sink's currentTime is not in the removed range:
\* currentTime >= to.
C28_CursorNotInRemovedRange ==
    [][last' = "tick" =>
          /\ \A i \in RemoveCalls(trace') : currentTime' >= trace'[i][3][2]
          /\ (~updating /\ op'.kind = "remove" => currentTime' >= op'.to)]_vars

\* A tick has just issued a remove and, in the same tick, pulled the cursor
\* from outside the retention band to bufferEnd - 0.1 s, past the end of the
\* removed range.
C28_Witness ==
    /\ last = "tick" /\ op.kind = "remove" /\ updating /\ op.to >= Second
    /\ Emitted("BufferCleaned") /\ Emitted("SyncTime")
    /\ currentTime = bufEnd - IdealBack /\ currentTime >= op.to


\* ---------------------------------------------------------------- C29
\* C29: no chunk is stranded: at the end of every receiver callback (push,
\* source-open handler, updateend handler, janitor tick), if the SourceBuffer
\* exists and is not updating and the receiver is not Destroyed, the pending
\* queue is empty.
C29_NoChunkStranded ==
    (/\ last \in {"push", "sourceopen", "updateend", "tick"}
     /\ sourceBuffer /\ ~updating /\ destroyedCount = 0)
        => queue = <<>>


\* ---------------------------------------------------------------- C30
\* C30: an event a caller injects through the public emit() reaches the
\* listeners of the public emitter only and never the internal one; and every
\* event the receiver itself emits once getSysEvents() has been granted goes
\* to both emitters and to the listeners each has at that moment.  So what
\* the internal listeners get is the receiver's own events only.
C30_InternalChannelIsLifecycleOnly ==
    /\ [](last = "emit" =>
             /\ emitted # <<>> /\ sysEmitted = <<>> /\ sysReceived = <<>>
             /\ (listeners => received = emitted))
    /\ [][(last' # "emit" /\ sysEventsUsed) =>
             /\ sysEmitted' = emitted'
             /\ (listeners => received' = emitted')
             /\ (sysListeners => sysReceived' = emitted')]_vars
    /\ [][(last' # "emit" /\ ~sysEventsUsed) =>
             (sysEmitted' = <<>> /\ sysReceived' = <<>>)]_vars

\* A caller has just emitted Destroyed on a live receiver whose two emitters
\* both have listeners: the public ones got it, the internal ones did not.
C30_Witness ==
    /\ last = "emit" /\ sysEventsUsed /\ sysListeners /\ listeners
    /\ received = <<<<"Destroyed", Injected>>>> /\ sysReceived = <<>>
    /\ destroyedCount = 0 /\ updating

====
